---- MODULE Spec2Model ----
(***************************************************************************)
(* Model of calm/dsl/builtins/models/action.py: the `action` descriptor    *)
(* that compiles a decorated function into an Action / runbook / DAG, and  *)
(* ActionType.assign_targets.                                              *)
(*                                                                         *)
(* Texts are sequences of one-character strings.  Python's None is the     *)
(* string "None".  Objects (tasks, DAGs, Actions) are natural-number       *)
(* identities handed out by nextId.                                        *)
(***************************************************************************)
EXTENDS Integers, Sequences, FiniteSets, TLC

VARIABLES
    func_name,      \* self.user_func.__name__ (= self.action_name)
    src,            \* inspect.getsource(self.user_func)
    parsed,         \* self.__parsed__
    user_action,    \* self.user_action (None until the first success)
    user_dag,       \* self.user_dag
    user_runbook,   \* self.user_runbook: main_task_local_reference, tasks, variables
    exception,      \* self.__exception__
    target,         \* target_any_local_reference of every task / DAG object, by identity
    nextId,         \* next fresh object identity
    padding,        \* local `padding` of the last run of the pipeline
    new_src,        \* local `new_src` of the last run of the pipeline
    op,             \* the operation that ran last
    cls,            \* the owner class (or parent entity) passed to that operation
    result,         \* what that operation returned or raised
    lastSteps,      \* the pipeline steps that operation executed, in order
    compiles,       \* how many times the pipeline ran to completion
    failures,       \* how many accesses raised
    pc,             \* per thread: position inside __get__ (concurrent accesses)
    locals,         \* per thread: the locals of __get__
    returned,       \* per thread: what __get__ returned or raised
    task_list,      \* the stage list the last successful get_objects() returned
    visit_outcome   \* what ast.parse + the visitor came to on the last run

vars == <<func_name, src, parsed, user_action, user_dag, user_runbook, exception,
          target, nextId, padding, new_src, op, cls, result, lastSteps,
          compiles, failures, pc, locals, returned, task_list, visit_outcome>>

None == "None"

\* ------------------------------------------------------------------ bounds

\* longest source text explored character by character
MaxSrcLen == 6
\* most stages the visitor returns
MaxStages == 3
\* most tasks in one parallel stage
MaxPar == 2
\* most accesses that raise before the model stops counting them
MaxFailures == 2
\* threads that access the same descriptor concurrently
NumThreads == 2

\* width a tab is replaced by (action.py line 93)
TabWidth == 4

\* ------------------------------------------------------------ text helpers

Chars == {" ", "\t", "\n", "x"}

RECURSIVE Repeat(_, _)
Repeat(c, n) == IF n = 0 THEN <<>> ELSE <<c>> \o Repeat(c, n - 1)

\* str.replace("\t", "    ")
RECURSIVE ReplaceTabs(_)
ReplaceTabs(s) ==
    IF s = <<>> THEN <<>>
    ELSE (IF Head(s) = "\t" THEN Repeat(" ", TabWidth) ELSE <<Head(s)>>)
         \o ReplaceTabs(Tail(s))

\* str.split(sep) for a one-character sep: k separators give k+1 pieces
RECURSIVE SplitAcc(_, _, _)
SplitAcc(s, sep, cur) ==
    IF s = <<>> THEN <<cur>>
    ELSE IF Head(s) = sep THEN <<cur>> \o SplitAcc(Tail(s), sep, <<>>)
    ELSE SplitAcc(Tail(s), sep, Append(cur, Head(s)))

Split(s, sep) == SplitAcc(s, sep, <<>>)

\* str.rstrip(c)
RECURSIVE RStrip(_, _)
RStrip(s, c) ==
    IF s # <<>> /\ s[Len(s)] = c THEN RStrip(SubSeq(s, 1, Len(s) - 1), c) ELSE s

\* list.count(x)
RECURSIVE Count(_, _)
Count(list, x) ==
    IF list = <<>> THEN 0
    ELSE (IF Head(list) = x THEN 1 ELSE 0) + Count(Tail(list), x)

\* sep.join(pieces)
RECURSIVE Join(_, _)
Join(pieces, sep) ==
    IF pieces = <<>> THEN <<>>
    ELSE IF Len(pieces) = 1 THEN pieces[1]
    ELSE pieces[1] \o <<sep>> \o Join(Tail(pieces), sep)

\* a slice that leaves a line shorter than p untouched
SliceFromKeepShort(line, p) ==
    IF p > Len(line) THEN line ELSE SubSeq(line, p + 1, Len(line))

\* line[p:]: a slice past the end is the empty text, never an error
SliceFrom(line, p) == SubSeq(line, p + 1, Len(line))

\* ------------------------------------------------------ source extraction

\* src = inspect.getsource(...).replace("\t", "    ")
Untabbed(s) == ReplaceTabs(s)

\* padding = src.split("\n")[0].rstrip(" ").split(" ").count("")
Padding(s) == Count(Split(RStrip(Split(Untabbed(s), "\n")[1], " "), " "), <<>>)

\* new_src = "\n".join(line[padding:] for line in src.split("\n")[1:])
NewSrc(s) ==
    LET lines == Tail(Split(Untabbed(s), "\n"))
    IN  Join([i \in 1..Len(lines) |-> SliceFrom(lines[i], Padding(s))], "\n")

\* --------------------------------------------------------------- the owner

\* str.lower() on the letters the model's names use
LowerChar(c) == CASE c = "C" -> "c" [] c = "F" -> "f" [] c = "U" -> "u" [] OTHER -> c

Lower(name) == [i \in 1..Len(name) |-> LowerChar(name[i])]

\* str.startswith / str.endswith
StartsWith(s, pre) == Len(s) >= Len(pre) /\ SubSeq(s, 1, Len(pre)) = pre

EndsWith(s, suf) == Len(s) >= Len(suf) /\ SubSeq(s, Len(s) - Len(suf) + 1, Len(s)) = suf

Dunder == <<"_", "_">>

\* function names user_func.__name__ ranges over
FuncNames == { <<"_", "_", "c", "_", "_">>, <<"_", "_", "C", "_", "_">>,
               <<"_", "_", "f", "_", "_">>, <<"_", "_", "u", "_", "_">>,
               <<"_", "_", "c">>, <<"u">> }

EmptyTable == <<>>

\* Owner classes `cls`: what get_task_target() returns, __has_dag_target__, and
\* the two tables ALLOWED_SYSTEM_ACTIONS / ALLOWED_FRAGMENT_ACTIONS (absent
\* tables read as {} through getattr's default).
Owners == {
    [name |-> "Service", task_target |-> "ref_service", has_dag_target |-> TRUE,
     SYSTEM |-> (<<"_", "_", "c", "_", "_">> :> <<"a", "c">>),
     FRAGMENT |-> (<<"_", "_", "c", "_", "_">> :> <<"p", "c">>
                   @@ <<"_", "_", "f", "_", "_">> :> <<"p", "f">>)],
    [name |-> "Substrate", task_target |-> "ref_substrate", has_dag_target |-> FALSE,
     SYSTEM |-> EmptyTable,
     FRAGMENT |-> (<<"_", "_", "c", "_", "_">> :> <<"p", "c">>)] }

NoOwner == [name |-> None, task_target |-> None, has_dag_target |-> FALSE,
            SYSTEM |-> EmptyTable, FRAGMENT |-> EmptyTable]

\* classification that forgets to lower-case before the table lookup
ClassifyNoLower(fname, owner) ==
    IF StartsWith(Lower(fname), Dunder) /\ EndsWith(Lower(fname), Dunder)
    THEN IF fname \in DOMAIN owner.SYSTEM
         THEN [type |-> "system", name |-> owner.SYSTEM[fname]]
         ELSE IF fname \in DOMAIN owner.FRAGMENT
         THEN [type |-> "fragment", name |-> owner.FRAGMENT[fname]]
         ELSE [type |-> "user", name |-> fname]
    ELSE [type |-> "user", name |-> fname]

\* ACTION_TYPE and action_name (lines 142-154)
Classify(fname, owner) ==
    LET lowered == Lower(fname)
    IN  IF StartsWith(lowered, Dunder) /\ EndsWith(lowered, Dunder)
        THEN IF lowered \in DOMAIN owner.SYSTEM
             THEN [type |-> "system", name |-> owner.SYSTEM[lowered]]
             ELSE IF lowered \in DOMAIN owner.FRAGMENT
             THEN [type |-> "fragment", name |-> owner.FRAGMENT[lowered]]
             ELSE [type |-> "user", name |-> fname]
        ELSE [type |-> "user", name |-> fname]

\* ------------------------------------------------------------- the visitor

\* A stage of task_list is one task or a Python list of tasks.
StageShapes == [is_list : {FALSE}, n : {1}] \cup [is_list : {TRUE}, n : 0..MaxPar]

Shapes == UNION {[1..k -> StageShapes] : k \in 0..MaxStages}

RECURSIVE NumTasks(_)
NumTasks(shape) == IF shape = <<>> THEN 0 ELSE Head(shape).n + NumTasks(Tail(shape))

\* ids first, first+1, ... in order
Ids(first, n) == [i \in 1..n |-> first + i - 1]

\* task_list: the stages in document order, their tasks numbered from `first`
RECURSIVE BuildTaskList(_, _)
BuildTaskList(shape, first) ==
    IF shape = <<>> THEN <<>>
    ELSE <<IF Head(shape).is_list
           THEN [is_list |-> TRUE, task |-> 0, tasks |-> Ids(first, Head(shape).n)]
           ELSE [is_list |-> FALSE, task |-> first, tasks |-> <<>>]>>
         \o BuildTaskList(Tail(shape), first + Head(shape).n)

\* which tasks carry a target given in the call's arguments
TargetPatterns == {"unset", "explicit", "alternate"}

ExplicitTarget(pattern, i) ==
    IF pattern = "explicit" \/ (pattern = "alternate" /\ i % 2 = 1)
    THEN "ref_explicit" ELSE None

\* the values of the visitor's `variables` dict
VariableLists == {<<>>, <<"var_x">>}

\* what ast.parse + GetCallNodes.visit + get_objects can come to
Exceptions == {"NodeVisitError", "NameError"}

SyntaxOutcomes ==
    [kind : {"SyntaxError"}, ex : {"SyntaxError"}, shape : {<<>>},
     pattern : {"unset"}, variables : {<<>>}]

RaiseOutcomes ==
    [kind : {"raise"}, ex : Exceptions, shape : {<<>>},
     pattern : {"unset"}, variables : {<<>>}]

OkOutcomes(shapes) ==
    [kind : {"ok"}, ex : {None}, shape : shapes,
     pattern : TargetPatterns, variables : VariableLists]

OneTask == [is_list |-> FALSE, n |-> 1]

Parallel(k) == [is_list |-> TRUE, n |-> k]

\* the function bodies of the access model: empty, one call, two calls, a
\* call + a parallel block of two + a call, a parallel block first
SampleShapes == { <<>>, <<OneTask>>, <<OneTask, OneTask>>,
                  <<OneTask, Parallel(2), OneTask>>, <<Parallel(2), OneTask>> }

\* task.get_ref(): a reference names the task it was taken from
GetRef(t) == t

\* ----------------------------------------------------------- edge inference

\* from_tasks / to_tasks after the isinstance(.., list) wrapping (lines 119-122)
AsList(stage) == IF ~stage.is_list THEN <<stage.task>> ELSE stage.tasks

\* the two nested loops (lines 123-125): for from_task: for to_task: append
RECURSIVE PairsFrom(_, _)
PairsFrom(from_task, to_tasks) ==
    IF to_tasks = <<>> THEN <<>>
    ELSE <<<<GetRef(from_task), GetRef(Head(to_tasks))>>>>
         \o PairsFrom(from_task, Tail(to_tasks))

RECURSIVE CrossEdges(_, _)
CrossEdges(from_tasks, to_tasks) ==
    IF from_tasks = <<>> THEN <<>>
    ELSE PairsFrom(Head(from_tasks), to_tasks) \o CrossEdges(Tail(from_tasks), to_tasks)

\* edges that also chain the members of one stage to each other
RECURSIVE InferEdgesChained(_)
InferEdgesChained(tl) ==
    IF tl = <<>> THEN <<>>
    ELSE LET here == AsList(Head(tl))
         IN  [i \in 1..(IF Len(here) = 0 THEN 0 ELSE Len(here) - 1) |->
                  <<GetRef(here[i]), GetRef(here[i + 1])>>]
             \o (IF Len(tl) < 2 THEN <<>>
                 ELSE CrossEdges(here, AsList(tl[2])))
             \o InferEdgesChained(Tail(tl))

\* edges written (to, from)
RECURSIVE InferEdgesReversed(_)
InferEdgesReversed(tl) ==
    IF Len(tl) < 2 THEN <<>>
    ELSE CrossEdges(AsList(tl[2]), AsList(tl[1])) \o InferEdgesReversed(Tail(tl))

\* edges from every stage to every later stage, adjacent or not
RECURSIVE EdgesToAllLater(_, _)
EdgesToAllLater(from_tasks, rest) ==
    IF rest = <<>> THEN <<>>
    ELSE CrossEdges(from_tasks, AsList(Head(rest))) \o EdgesToAllLater(from_tasks, Tail(rest))

RECURSIVE InferEdgesAllLater(_)
InferEdgesAllLater(tl) ==
    IF Len(tl) < 2 THEN <<>>
    ELSE EdgesToAllLater(AsList(tl[1]), Tail(tl)) \o InferEdgesAllLater(Tail(tl))

\* for from_tasks, to_tasks in zip(tl, tl[1:]) (lines 117-125)
RECURSIVE InferEdges(_)
InferEdges(tl) ==
    IF Len(tl) < 2 THEN <<>>
    ELSE CrossEdges(AsList(tl[1]), AsList(tl[2]))
         \o InferEdges(Tail(tl))

\* ------------------------------------------------ values of the descriptor

\* self.user_action / self.user_dag before the first success: attribute absent
NoAction == [id |-> 0, name |-> <<>>, type |-> None, critical |-> FALSE]

NoDag == [id |-> 0, child_tasks |-> <<>>, edges |-> <<>>]

\* runbook_create(name=self.runbook_name) (line 70): no main task, no tasks
EmptyRunbook == [main |-> 0, tasks |-> <<>>, variables |-> <<>>]

NoResult == [kind |-> "none", id |-> 0, ex |-> None]

Returned(action_id) == [kind |-> "action", id |-> action_id, ex |-> None]

Raised(ex) == [kind |-> "raise", id |-> 0, ex |-> ex]

\* source extraction came to a text (lines 93-104 have no raise)
ProducedText == [kind |-> "text", id |-> 0, ex |-> None]

\* `return self` (line 86)
ReturnedSelf == [kind |-> "self", id |-> 0, ex |-> None]

NoOutcome == [kind |-> "none", ex |-> None, shape |-> <<>>, pattern |-> "unset",
              variables |-> <<>>]

StepsToParse == <<"extract", "parse">>

StepsToVisit == <<"extract", "parse", "visit">>

StepsAll == <<"extract", "parse", "visit", "edges", "dag", "runbook", "action">>

\* a cache test that never hits
NeverCached == FALSE

\* if self.__parsed__ (line 88)
IsCached == parsed

\* an except clause that records nothing
RecordNothing(ex) == None

\* self.__exception__ = ex (line 114)
RecordException(ex) == ex

\* the targets of the tasks the visitor creates, added to the others
WithNewTasks(tgt, first, n, pattern) ==
    [i \in DOMAIN tgt \cup first..(first + n - 1) |->
        IF i \in DOMAIN tgt THEN tgt[i] ELSE ExplicitTarget(pattern, i - first + 1)]

\* target=cls.get_task_target() if getattr(cls, "__has_dag_target__", True) else None
DagTarget(owner) == IF owner.has_dag_target THEN owner.task_target ELSE None

\* dag(name=.., child_tasks=tasks, edges=edges, target=..) (lines 128-135)
MakeDag(id, tasks, edges) == [id |-> id, child_tasks |-> tasks, edges |-> edges]

\* _action_create(name, description, critical, type, runbook) (lines 157-165);
\* its runbook is always the one object self.user_runbook
MakeAction(id, fname, owner) ==
    LET k == Classify(fname, owner)
    IN  [id |-> id, name |-> k.name, type |-> k.type, critical |-> (k.type = "system")]

\* an assignment that overwrites a target already there
BackfillAlways(current, parent_target) == parent_target

\* if not task.target_any_local_reference: task... = parent_entity.get_task_target()
Backfill(current, parent_target) == IF current = None THEN parent_target ELSE current

\* ------------------------------------------------------------------- Init

Threads == 1..NumThreads

EmptyLocals == [cls |-> NoOwner, task_list |-> <<>>, tasks |-> <<>>, edges |-> <<>>,
                variables |-> <<>>]

\* source texts of the descriptor in the access model
SampleSources == { <<" ", "x", "\n", " ", "x", "\n">> }

\* every source text up to MaxSrcLen whose first line is not blank
AllSources ==
    {s \in UNION {[1..n -> Chars] : n \in 1..MaxSrcLen} :
        \E i \in 1..Len(s) : s[i] = "x" /\ \A j \in 1..(i - 1) : s[j] # "\n"}

\* action.__init__ (lines 55-71)
InitDescriptor ==
    /\ parsed = FALSE
    /\ user_action = NoAction
    /\ user_dag = NoDag
    /\ user_runbook = EmptyRunbook
    /\ exception = None
    /\ target = [i \in {} |-> None]
    /\ nextId = 1
    /\ padding = 0
    /\ new_src = <<>>
    /\ op = "init"
    /\ cls = NoOwner
    /\ result = NoResult
    /\ lastSteps = <<>>
    /\ compiles = 0
    /\ failures = 0
    /\ pc = [t \in Threads |-> "start"]
    /\ locals = [t \in Threads |-> EmptyLocals]
    /\ returned = [t \in Threads |-> NoResult]
    /\ task_list = <<>>

Init ==
    /\ func_name \in FuncNames
    /\ src \in SampleSources
    /\ visit_outcome = NoOutcome
    /\ InitDescriptor

\* ------------------------------------------- __get__, one access at a time

seqFrame == UNCHANGED <<func_name, src, pc, locals, returned>>

\* if cls is None: return self (lines 85-86)
GetUnbound ==
    /\ op' = "get"
    /\ cls' = NoOwner
    /\ result' = ReturnedSelf
    /\ lastSteps' = <<>>
    /\ seqFrame
    /\ UNCHANGED <<parsed, user_action, user_dag, user_runbook, exception, target,
                   nextId, padding, new_src, compiles, failures, task_list,
                   visit_outcome>>

\* if self.__parsed__: return self.user_action (lines 88-89)
GetCached(c) ==
    /\ IsCached
    /\ op' = "get"
    /\ cls' = c
    /\ result' = Returned(user_action.id)
    /\ lastSteps' = <<>>
    /\ seqFrame
    /\ UNCHANGED <<parsed, user_action, user_dag, user_runbook, exception, target,
                   nextId, padding, new_src, compiles, failures, task_list,
                   visit_outcome>>

\* ast.parse(new_src) raises (line 108): nothing is recorded
GetSyntaxError(c, o) ==
    /\ ~IsCached
    /\ o.kind = "SyntaxError"
    /\ failures < MaxFailures
    /\ op' = "get"
    /\ cls' = c
    /\ padding' = Padding(src)
    /\ new_src' = NewSrc(src)
    /\ visit_outcome' = o
    /\ result' = Raised(o.ex)
    /\ lastSteps' = StepsToParse
    /\ failures' = failures + 1
    /\ seqFrame
    /\ UNCHANGED <<parsed, user_action, user_dag, user_runbook, exception, target,
                   nextId, compiles, task_list>>

\* node_visitor.visit(node) raises (lines 111-115)
GetVisitRaises(c, o) ==
    /\ ~IsCached
    /\ o.kind = "raise"
    /\ failures < MaxFailures
    /\ op' = "get"
    /\ cls' = c
    /\ padding' = Padding(src)
    /\ new_src' = NewSrc(src)
    /\ visit_outcome' = o
    /\ exception' = RecordException(o.ex)
    /\ result' = Raised(o.ex)
    /\ lastSteps' = StepsToVisit
    /\ failures' = failures + 1
    /\ seqFrame
    /\ UNCHANGED <<parsed, user_action, user_dag, user_runbook, target,
                   nextId, compiles, task_list>>

\* the pipeline runs to the end (lines 93-169)
GetCompiles(c, o) ==
    /\ ~IsCached
    /\ o.kind = "ok"
    /\ LET n == NumTasks(o.shape)
           stages == BuildTaskList(o.shape, nextId)
           tasks == Ids(nextId, n)
           dagId == nextId + n
           actId == dagId + 1
       IN  /\ task_list' = stages
           /\ user_dag' = MakeDag(dagId, tasks, InferEdges(stages))
           /\ target' = (dagId :> DagTarget(c)) @@ WithNewTasks(target, nextId, n, o.pattern)
           /\ user_runbook' = [main |-> GetRef(dagId), tasks |-> <<dagId>> \o tasks,
                               variables |-> o.variables]
           /\ user_action' = MakeAction(actId, func_name, c)
           /\ result' = Returned(actId)
           /\ nextId' = actId + 1
    /\ parsed' = TRUE
    /\ op' = "get"
    /\ cls' = c
    /\ padding' = Padding(src)
    /\ new_src' = NewSrc(src)
    /\ visit_outcome' = o
    /\ lastSteps' = StepsAll
    /\ compiles' = compiles + 1
    /\ seqFrame
    /\ UNCHANGED <<exception, failures>>

\* ActionType.assign_targets on the compiled Action (lines 23-26)
AssignTargets(parent) ==
    /\ user_action # NoAction
    /\ target' = [t \in DOMAIN target |->
                    IF \E i \in 1..Len(user_runbook.tasks) : user_runbook.tasks[i] = t
                    THEN Backfill(target[t], parent.task_target)
                    ELSE target[t]]
    /\ op' = "assign_targets"
    /\ cls' = parent
    /\ result' = NoResult
    /\ lastSteps' = <<>>
    /\ seqFrame
    /\ UNCHANGED <<parsed, user_action, user_dag, user_runbook, exception,
                   nextId, padding, new_src, compiles, failures, task_list,
                   visit_outcome>>

Next ==
    \/ GetUnbound
    \/ \E c \in Owners : GetCached(c)
    \/ \E c \in Owners, o \in SyntaxOutcomes : GetSyntaxError(c, o)
    \/ \E c \in Owners, o \in RaiseOutcomes : GetVisitRaises(c, o)
    \/ \E c \in Owners, o \in OkOutcomes(SampleShapes) : GetCompiles(c, o)
    \/ \E p \in Owners : AssignTargets(p)

Spec == Init /\ [][Next]_vars

\* ------------------------------ the pipeline over every bounded stage list

InitEdges ==
    /\ func_name = <<"u">>
    /\ src \in SampleSources
    /\ visit_outcome = NoOutcome
    /\ InitDescriptor

NextEdges ==
    \/ \E c \in Owners, o \in OkOutcomes(Shapes) : GetCompiles(c, o)
    \/ \E c \in Owners : GetCached(c)

SpecEdges == InitEdges /\ [][NextEdges]_vars

\* --------------------------- source extraction over every bounded source

InitSrc ==
    /\ func_name = <<"u">>
    /\ src \in AllSources
    /\ visit_outcome = NoOutcome
    /\ InitDescriptor

\* lines 93-104 alone
ExtractSource ==
    /\ op = "init"
    /\ op' = "extract"
    /\ padding' = Padding(src)
    /\ new_src' = NewSrc(src)
    /\ lastSteps' = <<"extract">>
    /\ result' = ProducedText
    /\ seqFrame
    /\ UNCHANGED <<parsed, user_action, user_dag, user_runbook, exception, target,
                   nextId, cls, compiles, failures, task_list, visit_outcome>>

NextSrc == ExtractSource

SpecSrc == InitSrc /\ [][NextSrc]_vars

\* ------------------------------------- __get__ from several threads at once
\* One step per statement group of __get__; the interpreter may switch
\* threads between any two of them.  No lock guards self.__parsed__.

\* the visitor is a pure function of the source: one outcome per descriptor
ConcOutcomes ==
    [kind : {"raise"}, ex : {"NodeVisitError"}, shape : {<<>>},
     pattern : {"unset"}, variables : {<<>>}]
    \cup [kind : {"ok"}, ex : {None}, shape : {<<OneTask>>, <<OneTask, OneTask>>},
          pattern : {"unset"}, variables : {<<>>, <<"var_x">>}]

InitConc ==
    /\ func_name = <<"u">>
    /\ src \in SampleSources
    /\ visit_outcome \in ConcOutcomes
    /\ InitDescriptor

concFrame == UNCHANGED <<func_name, src, op, cls, result, lastSteps, failures,
                         task_list, visit_outcome>>

\* lines 85-89: the cache test
T_Enter(t, c) ==
    /\ pc[t] = "start"
    /\ locals' = [locals EXCEPT ![t].cls = c]
    /\ IF IsCached
       THEN /\ returned' = [returned EXCEPT ![t] = Returned(user_action.id)]
            /\ pc' = [pc EXCEPT ![t] = "done"]
       ELSE /\ returned' = returned
            /\ pc' = [pc EXCEPT ![t] = "extract"]
    /\ concFrame
    /\ UNCHANGED <<parsed, user_action, user_dag, user_runbook, exception, target,
                   nextId, padding, new_src, compiles>>

\* lines 93-104: source extraction
T_Extract(t) ==
    /\ pc[t] = "extract"
    /\ padding' = Padding(src)
    /\ new_src' = NewSrc(src)
    /\ pc' = [pc EXCEPT ![t] = "visit"]
    /\ concFrame
    /\ UNCHANGED <<parsed, user_action, user_dag, user_runbook, exception, target,
                   nextId, compiles, locals, returned>>

\* lines 108-115: the visitor raises
T_VisitRaises(t) ==
    /\ pc[t] = "visit"
    /\ visit_outcome.kind = "raise"
    /\ exception' = RecordException(visit_outcome.ex)
    /\ returned' = [returned EXCEPT ![t] = Raised(visit_outcome.ex)]
    /\ pc' = [pc EXCEPT ![t] = "done"]
    /\ concFrame
    /\ UNCHANGED <<parsed, user_action, user_dag, user_runbook, target,
                   nextId, padding, new_src, compiles, locals>>

\* lines 108-125: parse, visit, get_objects, the edges
T_Visit(t) ==
    /\ pc[t] = "visit"
    /\ visit_outcome.kind = "ok"
    /\ LET n == NumTasks(visit_outcome.shape)
           stages == BuildTaskList(visit_outcome.shape, nextId)
       IN  /\ locals' = [locals EXCEPT ![t].task_list = stages,
                                       ![t].tasks = Ids(nextId, n),
                                       ![t].edges = InferEdges(stages),
                                       ![t].variables = visit_outcome.variables]
           /\ target' = WithNewTasks(target, nextId, n, visit_outcome.pattern)
           /\ nextId' = nextId + n
    /\ pc' = [pc EXCEPT ![t] = "dag"]
    /\ concFrame
    /\ UNCHANGED <<parsed, user_action, user_dag, user_runbook, exception,
                   padding, new_src, compiles, returned>>

\* lines 128-135: self.user_dag = dag(...)
T_Dag(t) ==
    /\ pc[t] = "dag"
    /\ user_dag' = MakeDag(nextId, locals[t].tasks, locals[t].edges)
    /\ target' = (nextId :> DagTarget(locals[t].cls)) @@ target
    /\ nextId' = nextId + 1
    /\ pc' = [pc EXCEPT ![t] = "main"]
    /\ concFrame
    /\ UNCHANGED <<parsed, user_action, user_runbook, exception,
                   padding, new_src, compiles, locals, returned>>

\* line 138: self.user_runbook.main_task_local_reference = self.user_dag.get_ref()
T_Main(t) ==
    /\ pc[t] = "main"
    /\ user_runbook' = [user_runbook EXCEPT !.main = GetRef(user_dag.id)]
    /\ pc' = [pc EXCEPT ![t] = "tasks"]
    /\ concFrame
    /\ UNCHANGED <<parsed, user_action, user_dag, exception, target, nextId,
                   padding, new_src, compiles, locals, returned>>

\* line 139: self.user_runbook.tasks = [self.user_dag] + tasks
T_Tasks(t) ==
    /\ pc[t] = "tasks"
    /\ user_runbook' = [user_runbook EXCEPT !.tasks = <<user_dag.id>> \o locals[t].tasks]
    /\ pc' = [pc EXCEPT ![t] = "variables"]
    /\ concFrame
    /\ UNCHANGED <<parsed, user_action, user_dag, exception, target, nextId,
                   padding, new_src, compiles, locals, returned>>

\* line 140: self.user_runbook.variables = [...]
T_Variables(t) ==
    /\ pc[t] = "variables"
    /\ user_runbook' = [user_runbook EXCEPT !.variables = locals[t].variables]
    /\ pc' = [pc EXCEPT ![t] = "action"]
    /\ concFrame
    /\ UNCHANGED <<parsed, user_action, user_dag, exception, target, nextId,
                   padding, new_src, compiles, locals, returned>>

\* lines 143-165: self.user_action = _action_create(...)
T_Action(t) ==
    /\ pc[t] = "action"
    /\ user_action' = MakeAction(nextId, func_name, locals[t].cls)
    /\ nextId' = nextId + 1
    /\ pc' = [pc EXCEPT ![t] = "set_parsed"]
    /\ concFrame
    /\ UNCHANGED <<parsed, user_dag, user_runbook, exception, target,
                   padding, new_src, compiles, locals, returned>>

\* line 167: self.__parsed__ = True
T_SetParsed(t) ==
    /\ pc[t] = "set_parsed"
    /\ parsed' = TRUE
    /\ compiles' = compiles + 1
    /\ pc' = [pc EXCEPT ![t] = "return"]
    /\ concFrame
    /\ UNCHANGED <<user_action, user_dag, user_runbook, exception, target, nextId,
                   padding, new_src, locals, returned>>

\* line 169: return self.user_action
T_Return(t) ==
    /\ pc[t] = "return"
    /\ returned' = [returned EXCEPT ![t] = Returned(user_action.id)]
    /\ pc' = [pc EXCEPT ![t] = "done"]
    /\ concFrame
    /\ UNCHANGED <<parsed, user_action, user_dag, user_runbook, exception, target,
                   nextId, padding, new_src, compiles, locals>>

NextConc ==
    \E t \in Threads :
        \/ \E c \in Owners : T_Enter(t, c)
        \/ T_Extract(t)
        \/ T_VisitRaises(t)
        \/ T_Visit(t)
        \/ T_Dag(t)
        \/ T_Main(t)
        \/ T_Tasks(t)
        \/ T_Variables(t)
        \/ T_Action(t)
        \/ T_SetParsed(t)
        \/ T_Return(t)

SpecConc == InitConc /\ [][NextConc]_vars

\* ================================================================== claims

AllSingle(tl) == \A i \in 1..Len(tl) : ~tl[i].is_list

SeqToSet(q) == {q[i] : i \in 1..Len(q)}

\* the tasks of the stages, in document order
RECURSIVE Flatten(_)
Flatten(tl) == IF tl = <<>> THEN <<>> ELSE AsList(Head(tl)) \o Flatten(Tail(tl))

\* the index of the stage that holds task t
StageOf(tl, t) == CHOOSE i \in 1..Len(tl) : t \in SeqToSet(AsList(tl[i]))

\* C1: a body of N >= 1 single-task stages compiles to a DAG with exactly those
\* N tasks and N-1 edges, the i-th edge being (ref of task i, ref of task i+1),
\* and the runbook's task list is the DAG followed by the N tasks.
C1_SequentialChain ==
    (parsed /\ Len(task_list) >= 1 /\ AllSingle(task_list)) =>
        LET N == Len(task_list)
            chain == [i \in 1..N |-> task_list[i].task]
        IN  /\ user_dag.child_tasks = chain
            /\ Len(user_dag.edges) = N - 1
            /\ \A i \in 1..(N - 1) :
                   user_dag.edges[i] = <<GetRef(chain[i]), GetRef(chain[i + 1])>>
            /\ user_runbook.tasks = <<user_dag.id>> \o chain
            /\ Len(user_runbook.tasks) = N + 1

C1_Witness ==
    /\ parsed
    /\ Len(task_list) = 3
    /\ AllSingle(task_list)
    /\ Len(user_dag.edges) = 2
    /\ Len(user_runbook.tasks) = 4

IsSandwich(tl) == Len(tl) = 3 /\ ~tl[1].is_list /\ tl[2].is_list /\ ~tl[3].is_list

\* C2: for stages [task A, parallel set of K tasks, task B] exactly 2K edges are
\* emitted: one A->p and one p->B for each parallel task p, none between two
\* parallel tasks and none from A to B.
C2_ParallelSandwich ==
    (parsed /\ IsSandwich(task_list)) =>
        LET A == GetRef(task_list[1].task)
            B == GetRef(task_list[3].task)
            P == SeqToSet(task_list[2].tasks)
            K == Len(task_list[2].tasks)
            E == user_dag.edges
        IN  /\ Len(E) = 2 * K
            /\ \A p \in P : Count(E, <<A, GetRef(p)>>) = 1 /\ Count(E, <<GetRef(p), B>>) = 1
            /\ \A p \in P, q \in P : Count(E, <<GetRef(p), GetRef(q)>>) = 0
            /\ Count(E, <<A, B>>) = 0

C2_Witness ==
    /\ parsed
    /\ IsSandwich(task_list)
    /\ Len(task_list[2].tasks) = 2
    /\ Len(user_dag.edges) = 4

\* C8: every emitted edge goes from a task of some stage i to a task of stage
\* i+1 (never inside a stage, across non-adjacent stages or backwards), and both
\* its endpoints are tasks of the DAG.
C8_EdgesJoinAdjacentStages ==
    parsed =>
        \A k \in 1..Len(user_dag.edges) :
            LET e == user_dag.edges[k]
            IN  /\ e[1] \in SeqToSet(user_dag.child_tasks)
                /\ e[2] \in SeqToSet(user_dag.child_tasks)
                /\ e[1] \in SeqToSet(Flatten(task_list))
                /\ e[2] \in SeqToSet(Flatten(task_list))
                /\ StageOf(task_list, e[2]) = StageOf(task_list, e[1]) + 1

C8_Witness ==
    /\ parsed
    /\ Len(task_list) = 3
    /\ task_list[1].is_list /\ Len(task_list[1].tasks) = 2
    /\ task_list[2].is_list /\ Len(task_list[2].tasks) = 2
    /\ ~task_list[3].is_list
    /\ Len(user_dag.edges) = 6

\* C3: once an access with an owner class has succeeded, every later access
\* with an owner class returns the identical compiled Action and runs no
\* pipeline step; the pipeline completes at most once per descriptor.
C3_CompiledOnce ==
    /\ [](compiles <= 1)
    /\ [][(parsed /\ op' = "get" /\ cls' # NoOwner) =>
            /\ result' = Returned(user_action.id)
            /\ user_action' = user_action
            /\ lastSteps' = <<>>
            /\ compiles' = compiles
            /\ user_dag' = user_dag
            /\ user_runbook' = user_runbook]_vars

\* a cached access by an owner other than the one that compiled: only Service
\* has a system table, so a system Action was compiled for Service
C3_Witness ==
    /\ parsed
    /\ user_action.type = "system"
    /\ op = "get"
    /\ cls.name = "Substrate"
    /\ result = Returned(user_action.id)
    /\ lastSteps = <<>>
    /\ compiles = 1

\* C4: when the visitor raises, that exception is recorded on the descriptor
\* and raised to the caller, nothing is cached (__parsed__ stays False, no
\* Action, the runbook untouched), and the next access with an owner starts the
\* pipeline again from source extraction, however many accesses failed before.
C4_FailureNotCached ==
    /\ [](result.kind = "raise" => (~parsed /\ user_action = NoAction))
    /\ [][(op' = "get" /\ result'.kind = "raise" /\ result'.ex \in Exceptions
           /\ failures' # failures) =>
            /\ exception' = result'.ex
            /\ lastSteps' = StepsToVisit
            /\ ~parsed'
            /\ user_action' = NoAction
            /\ user_runbook' = user_runbook
            /\ user_dag' = user_dag]_vars
    /\ [][(result.kind = "raise" /\ op' = "get" /\ cls' # NoOwner) =>
            /\ Len(lastSteps') >= 2
            /\ SubSeq(lastSteps', 1, 2) = StepsToParse]_vars

\* the second of two failed accesses
C4_Witness ==
    /\ failures = 2
    /\ visit_outcome.kind = "raise"
    /\ result = Raised("NameError")
    /\ exception = "NameError"
    /\ lastSteps = StepsToVisit
    /\ ~parsed

\* C7: the compiled Action's type is "user", "system" or "fragment", critical
\* exactly when "system"; it is "system" iff the lower-cased function name is
\* __x__-shaped and a key of the owner's system table, "fragment" iff it is
\* __x__-shaped, no system key and a key of the fragment table, "user"
\* otherwise; the name is the table's value, or the function's own name.
C7_Classification ==
    /\ parsed => /\ user_action.type \in {"user", "system", "fragment"}
                 /\ user_action.critical <=> (user_action.type = "system")
    /\ (op = "get" /\ lastSteps = StepsAll) =>
        LET low == Lower(func_name)
            shaped == StartsWith(low, Dunder) /\ EndsWith(low, Dunder)
            isSystem == shaped /\ low \in DOMAIN cls.SYSTEM
            isFragment == shaped /\ low \notin DOMAIN cls.SYSTEM
                          /\ low \in DOMAIN cls.FRAGMENT
        IN  /\ (user_action.type = "system") <=> isSystem
            /\ (user_action.type = "fragment") <=> isFragment
            /\ (user_action.type = "user") <=> (~isSystem /\ ~isFragment)
            /\ user_action.name = IF isSystem THEN cls.SYSTEM[low]
                                  ELSE IF isFragment THEN cls.FRAGMENT[low]
                                  ELSE func_name

\* a function named __C__ compiled for Service: the lower-cased name is the key
C7_Witness ==
    /\ op = "get"
    /\ lastSteps = StepsAll
    /\ func_name = <<"_", "_", "C", "_", "_">>
    /\ user_action.type = "system"
    /\ user_action.critical
    /\ user_action.name = <<"a", "c">>

InRunbook(t) == \E i \in 1..Len(user_runbook.tasks) : user_runbook.tasks[i] = t

\* C9: assign_targets sets the target of the runbook tasks whose target is
\* unset to the parent's task target and changes nothing else; a target that is
\* set, explicitly or by an earlier assign_targets, is kept by every later step.
C9_BackfillOnlyUnset ==
    /\ [][\A t \in DOMAIN target : target[t] # None => target'[t] = target[t]]_vars
    /\ [][op' = "assign_targets" =>
            /\ DOMAIN target' = DOMAIN target
            /\ \A t \in DOMAIN target :
                   target'[t] = IF InRunbook(t) /\ target[t] = None
                                THEN cls'.task_target ELSE target[t]
            /\ cls'.task_target # None
            /\ user_runbook' = user_runbook
            /\ user_dag' = user_dag
            /\ user_action' = user_action
            /\ parsed' = parsed
            /\ exception' = exception
            /\ task_list' = task_list]_vars

\* after assign_targets by a second parent: one task keeps its explicit target
\* and one keeps the target the first parent gave it
C9_Witness ==
    /\ op = "assign_targets"
    /\ \E t \in DOMAIN target : InRunbook(t) /\ target[t] = "ref_explicit"
    /\ \E t \in DOMAIN target :
           /\ InRunbook(t)
           /\ t # user_dag.id
           /\ target[t] \notin {None, "ref_explicit", cls.task_target}

\* the lines of the source after tab replacement
SrcLines == Split(Untabbed(src), "\n")

\* number of leading space characters
RECURSIVE LeadingSpaces(_)
LeadingSpaces(line) ==
    IF line # <<>> /\ Head(line) = " " THEN 1 + LeadingSpaces(Tail(line)) ELSE 0

HasShortLine == \E i \in 2..Len(SrcLines) : Len(SrcLines[i]) < padding

\* C5 as claimed: a line after the first that is shorter than the computed
\* indentation makes source extraction fail with MalformedSourceError.
C5_ShortLineRaises ==
    (op = "extract" /\ HasShortLine) => result = Raised("MalformedSourceError")

\* C5 as amended: with a line after the first shorter than the computed
\* indentation P, extraction still comes to a text; every such line becomes the
\* empty line and every other line loses exactly P characters.
C5_ShortLineBecomesEmpty ==
    (op = "extract" /\ HasShortLine) =>
        LET out == Split(new_src, "\n")
        IN  /\ result = ProducedText
            /\ Len(out) = Len(SrcLines) - 1
            /\ \A i \in 2..Len(SrcLines) :
                   IF Len(SrcLines[i]) < padding
                   THEN out[i - 1] = <<>>
                   ELSE /\ Len(out[i - 1]) = Len(SrcLines[i]) - padding
                        /\ SrcLines[i] = SubSeq(SrcLines[i], 1, padding) \o out[i - 1]

\* a non-empty line shorter than the indentation was cut to the empty line
C5_Witness ==
    /\ op = "extract"
    /\ \E i \in 2..Len(SrcLines) :
           /\ SrcLines[i] # <<>>
           /\ Len(SrcLines[i]) < padding
           /\ Split(new_src, "\n")[i - 1] = <<>>

\* C6 as claimed: the computed indentation is the number of leading spaces of
\* the first line, whatever else the line holds; the first line is dropped and
\* that many leading characters are removed from every other line.
C6_PaddingIsLeadingSpaces ==
    op = "extract" =>
        LET P == LeadingSpaces(SrcLines[1])
            rest == Tail(SrcLines)
        IN  /\ padding = P
            /\ new_src = Join([i \in 1..Len(rest) |->
                                  SubSeq(rest[i], P + 1, Len(rest[i]))], "\n")

\* C10 as claimed: with several threads in __get__ on one descriptor the
\* pipeline completes at most once and all of them get the same Action or the
\* same error.
C10_SingleFlight ==
    /\ compiles <= 1
    /\ \A t1 \in Threads, t2 \in Threads :
           (pc[t1] = "done" /\ pc[t2] = "done") => returned[t1] = returned[t2]

====
